---- MODULE Spec2Model ----
(***************************************************************************)
(* ToolManager (js/tools/tool-manager.js): a registry of named tools and   *)
(* the dispatcher of tool calls.  The registry is a JavaScript Map, kept   *)
(* here as the sequence of its entries in insertion order.  A call of the  *)
(* async handleToolCall runs to its await of tool.execute(args) in one     *)
(* step; the promise execute returned settles in a step of its own; and    *)
(* handleToolCall resumes in a later step, so that other operations may    *)
(* run between the settling and the resumption.                            *)
(***************************************************************************)
EXTENDS Naturals, Sequences, FiniteSets, TLC

VARIABLES tools, calls, last, executed

vars == <<tools, calls, last, executed>>

(* ------------------------------------------------------------------ *)
(* Bounds and input sets                                               *)
(* ------------------------------------------------------------------ *)

\* how many tools may be registered on top of the default ones
MaxExtraTools == 1

\* names passed to registerTool after construction
RegNames == {"weather", "get_weather_on_date", "calc"}

\* tool instances passed to registerTool after construction;
\* bareTool is an object with execute but without getDeclaration
RegTools == {"toolA", "bareTool"}

\* names, args and ids of the functionCall objects passed to handleToolCall;
\* every id is used for at most one call
CallNames == {"weather", "get_weather_on_date", "calc", "doesNotExist",
              "emailSender"}
Args == {"a1", "a2"}
Ids == {"x1", "x2"}

\* what a tool's execute may settle with: a returned value or a thrown
\* Error with a message
Values == {"4"}
Messages == {"boom"}
Outcomes == {[kind |-> "return", value |-> v] : v \in Values}
            \cup {[kind |-> "throw", value |-> m] : m \in Messages}

\* the args objects as the email tool reads them: a1 names two recipients,
\* a subject and a body and no attachment; a2 has no recipients
EmailArgs(args) ==
    IF args = "a1"
    THEN [recipients |-> <<"a@x.io", "b@x.io">>, subject |-> "Hi",
          body |-> "Text", attachment |-> ""]
    ELSE [subject |-> "Hi", body |-> "Text", attachment |-> ""]

\* what transporter.sendMail may settle with
MailResults == {[ok |-> TRUE, message |-> ""],
                [ok |-> FALSE, message |-> "Invalid login"]}

(* ------------------------------------------------------------------ *)
(* The Map of tools                                                    *)
(* ------------------------------------------------------------------ *)

\* the value Map.get gives for a missing key
Undefined == "undefined"

\* this.tools.has(name)
Has(m, name) == \E i \in 1..Len(m) : m[i].name = name

\* this.tools.get(name)
Get(m, name) ==
    IF Has(m, name)
    THEN m[CHOOSE i \in 1..Len(m) : m[i].name = name].tool
    ELSE Undefined

\* this.tools.set(name, toolInstance): a new key is appended, an existing
\* key keeps its position and takes the new value
Set(m, name, toolInstance) ==
    IF Has(m, name)
    THEN [i \in 1..Len(m) |->
            IF m[i].name = name THEN [name |-> name, tool |-> toolInstance]
            ELSE m[i]]
    ELSE Append(m, [name |-> name, tool |-> toolInstance])

\* the codes of ErrorCodes used by the manager
INVALID_STATE == "INVALID_STATE"
INVALID_PARAMETER == "INVALID_PARAMETER"

\* new ApplicationError(message, code): an error carrying its message and,
\* beside it, the code it was made with
ApplicationError(message, code) == [message |-> message, code |-> code]

NoError == [message |-> "", code |-> ""]

(* ------------------------------------------------------------------ *)
(* registerTool                                                        *)
(* ------------------------------------------------------------------ *)

\* RegisterToolResult without the has(name) check: set replaces the binding
RegisterToolResult_overwrite(m, name, toolInstance) ==
    [tools |-> Set(m, name, toolInstance), threw |-> FALSE,
     error |-> NoError, logged |-> TRUE]

\* registerTool(name, toolInstance) as a function of the map: the map
\* after the call, whether it threw, and the error thrown
RegisterToolResult(m, name, toolInstance) ==
    IF Has(m, name)
    THEN [tools |-> m, threw |-> TRUE,
          error |-> ApplicationError("Tool " \o name \o " is already registered",
                                     INVALID_STATE),
          logged |-> FALSE]
    ELSE [tools |-> Set(m, name, toolInstance), threw |-> FALSE,
          error |-> NoError, logged |-> TRUE]

\* DefaultTools with the email tool registered under the name weather again
DefaultTools_duplicate ==
    << [name |-> "googleSearch",      tool |-> "GoogleSearchTool"],
       [name |-> "weather",           tool |-> "WeatherTool"],
       [name |-> "documentSaver",     tool |-> "DocumentSaverTool"],
       [name |-> "weather",           tool |-> "EmailSenderTool"],
       [name |-> "calculator",        tool |-> "CalculatorTool"],
       [name |-> "unitConverter",     tool |-> "UnitConverterTool"],
       [name |-> "timeConverter",     tool |-> "TimeConverterTool"],
       [name |-> "currencyConverter", tool |-> "CurrencyConverterTool"],
       [name |-> "dateCalculator",    tool |-> "DateCalculatorTool"],
       [name |-> "textSummarizer",    tool |-> "TextSummarizerTool"],
       [name |-> "textTranslator",    tool |-> "TextTranslatorTool"],
       [name |-> "randomGenerator",   tool |-> "RandomGeneratorTool"],
       [name |-> "passwordGenerator", tool |-> "PasswordGeneratorTool"],
       [name |-> "listGenerator",     tool |-> "ListGeneratorTool"] >>

\* the names and instances registerDefaultTools registers, in order
DefaultTools ==
    << [name |-> "googleSearch",      tool |-> "GoogleSearchTool"],
       [name |-> "weather",           tool |-> "WeatherTool"],
       [name |-> "documentSaver",     tool |-> "DocumentSaverTool"],
       [name |-> "emailSender",       tool |-> "EmailSenderTool"],
       [name |-> "calculator",        tool |-> "CalculatorTool"],
       [name |-> "unitConverter",     tool |-> "UnitConverterTool"],
       [name |-> "timeConverter",     tool |-> "TimeConverterTool"],
       [name |-> "currencyConverter", tool |-> "CurrencyConverterTool"],
       [name |-> "dateCalculator",    tool |-> "DateCalculatorTool"],
       [name |-> "textSummarizer",    tool |-> "TextSummarizerTool"],
       [name |-> "textTranslator",    tool |-> "TextTranslatorTool"],
       [name |-> "randomGenerator",   tool |-> "RandomGeneratorTool"],
       [name |-> "passwordGenerator", tool |-> "PasswordGeneratorTool"],
       [name |-> "listGenerator",     tool |-> "ListGeneratorTool"] >>

\* registerDefaultTools(): the calls of registerTool one after the other;
\* a throwing call ends the constructor with the map as it then is
RECURSIVE RegisterDefaultToolsFrom(_, _)
RegisterDefaultToolsFrom(m, k) ==
    IF k > Len(DefaultTools) THEN [tools |-> m, threw |-> FALSE]
    ELSE LET r == RegisterToolResult(m, DefaultTools[k].name, DefaultTools[k].tool)
         IN  IF r.threw THEN [tools |-> m, threw |-> TRUE]
             ELSE RegisterDefaultToolsFrom(r.tools, k + 1)

\* new ToolManager(): an empty Map, then registerDefaultTools()
Constructor == RegisterDefaultToolsFrom(<< >>, 1)

(* ------------------------------------------------------------------ *)
(* getToolDeclarations                                                 *)
(* ------------------------------------------------------------------ *)

\* tool.getDeclaration is present
HasGetDeclaration(t) == t # "bareTool"

\* tool.getDeclaration(): the declaration object, whose own name field
\* need not be the name the tool is registered under
GetDeclaration(t) ==
    [name |-> IF t = "EmailSenderTool" THEN "emailSender" ELSE t]

\* DeclarationRecord that keys every record by the declaration's own name
DeclarationRecord_byDeclaredName(name, tool) ==
    IF name = "weather"
    THEN [functionDeclarations |-> GetDeclaration(tool)]
    ELSE (GetDeclaration(tool).name :> GetDeclaration(tool))

\* the record pushed for one entry of the map: an object with the one key
\* functionDeclarations for the name weather, the key [name] otherwise
DeclarationRecord(name, tool) ==
    IF name = "weather"
    THEN [functionDeclarations |-> GetDeclaration(tool)]
    ELSE (name :> GetDeclaration(tool))

\* DeclarationsFrom without the test for getDeclaration: a record for every entry
RECURSIVE DeclarationsFrom_unguarded(_, _)
DeclarationsFrom_unguarded(m, k) ==
    IF k > Len(m) THEN << >>
    ELSE <<DeclarationRecord(m[k].name, m[k].tool)>> \o DeclarationsFrom_unguarded(m, k + 1)

\* DeclarationsFrom that puts each record in front of the earlier ones
RECURSIVE DeclarationsFrom_unshift(_, _)
DeclarationsFrom_unshift(m, k) ==
    IF k > Len(m) THEN << >>
    ELSE IF HasGetDeclaration(m[k].tool)
         THEN DeclarationsFrom_unshift(m, k + 1) \o <<DeclarationRecord(m[k].name, m[k].tool)>>
         ELSE DeclarationsFrom_unshift(m, k + 1)

\* getToolDeclarations(): forEach over the map in insertion order
RECURSIVE DeclarationsFrom(_, _)
DeclarationsFrom(m, k) ==
    IF k > Len(m) THEN << >>
    ELSE IF HasGetDeclaration(m[k].tool)
         THEN <<DeclarationRecord(m[k].name, m[k].tool)>> \o DeclarationsFrom(m, k + 1)
         ELSE DeclarationsFrom(m, k + 1)

GetToolDeclarationsResult(m) == DeclarationsFrom(m, 1)

(* ------------------------------------------------------------------ *)
(* EmailSenderTool.execute                                             *)
(* ------------------------------------------------------------------ *)

\* recipients.join(', ')
RECURSIVE JoinFrom(_, _)
JoinFrom(r, k) ==
    IF k > Len(r) THEN ""
    ELSE IF k = Len(r) THEN r[k]
    ELSE r[k] \o ", " \o JoinFrom(r, k + 1)

\* the promise execute returned, before it settles
Pending == [kind |-> "pending", value |-> ""]

\* the Logger.error call of the catch block of execute
EmailFailedEntry(message) ==
    [level |-> "error", message |-> "emailSender failed", context |-> message]

\* EmailSenderCatch that throws the error it caught
EmailSenderCatch_rethrowsCause(message) ==
    [kind |-> "throw", value |-> message]

\* the catch block of execute: whatever was thrown in the try block is
\* thrown again as an Error with the prefix "Failed to send email: "
EmailSenderCatch(message) ==
    [kind |-> "throw", value |-> "Failed to send email: " \o message]

\* execute(args) of the email tool from its entry to its await of sendMail:
\* the call is logged and the mail options are built; recipients.join throws
\* a TypeError when there are no recipients, which the catch block logs and
\* wraps, and the promise of execute is then rejected without sendMail
\* having been called
EmailSenderStart(args) ==
    LET a == EmailArgs(args)
        entry == [level |-> "info", message |-> "Executing emailSender",
                  context |-> args]
        cause == "Cannot read properties of undefined (reading 'join')"
    IN  IF "recipients" \notin DOMAIN a
        THEN [promise |-> EmailSenderCatch(cause), sendMail |-> "notCalled",
              log |-> <<entry, EmailFailedEntry(cause)>>]
        ELSE [promise |-> Pending, sendMail |-> "pending", log |-> <<entry>>]

\* the rest of execute once sendMail has settled with mail: the result
\* string is logged and returned, or the rejection is logged and wrapped
EmailSenderResume(args, mail) ==
    LET a == EmailArgs(args)
        result == "Email sent to " \o JoinFrom(a.recipients, 1)
                  \o " with subject: " \o a.subject
                  \o " and body: " \o a.body
                  \o ". Attachment: "
                  \o (IF a.attachment = "" THEN "none" ELSE a.attachment)
    IN  IF mail.ok
        THEN [promise |-> [kind |-> "return", value |-> result],
              sendMail |-> "resolved",
              log |-> << [level |-> "info", message |-> result,
                          context |-> Undefined] >>]
        ELSE [promise |-> EmailSenderCatch(mail.message),
              sendMail |-> "rejected",
              log |-> <<EmailFailedEntry(mail.message)>>]

(* ------------------------------------------------------------------ *)
(* handleToolCall                                                      *)
(* ------------------------------------------------------------------ *)

\* ResolveTool that looks the call name up first and falls back to the alias
ResolveTool_directFirst(m, name) ==
    IF Has(m, name) THEN Get(m, name)
    ELSE IF name = "get_weather_on_date" THEN Get(m, "weather")
    ELSE Undefined

\* ResolveTool without the alias: every name is looked up as it is
ResolveTool_noAlias(m, name) == Get(m, name)

\* the tool a call name resolves to
ResolveTool(m, name) ==
    IF name = "get_weather_on_date" THEN Get(m, "weather") ELSE Get(m, name)

\* the object returned when execute resolved
SuccessResponse(result, id) ==
    [functionResponses |-> << [response |-> [output |-> result], id |-> id] >>]

\* ErrorResponse that also carries an empty output field
ErrorResponse_withOutput(message, id) ==
    [functionResponses |->
        << [response |-> [output |-> "", error |-> message], id |-> id] >>]

\* ErrorResponse that reports the error converted to a string, not its message
ErrorResponse_toString(message, id) ==
    [functionResponses |->
        << [response |-> [error |-> "Error: " \o message], id |-> id] >>]

\* the object returned from the catch block
ErrorResponse(message, id) ==
    [functionResponses |-> << [response |-> [error |-> message], id |-> id] >>]

NoResponse == [functionResponses |-> << >>]

\* a call that has not been made
IdleCall ==
    [pc |-> "idle", name |-> "", args |-> "", id |-> "", tool |-> Undefined,
     execs |-> << >>, outcome |-> [kind |-> "", value |-> ""],
     response |-> NoResponse, error |-> NoError, log |-> << >>,
     promise |-> [kind |-> "", value |-> ""], sendMail |-> ""]

\* tool.execute(arg) is invoked on the call c: the invocation is recorded,
\* and execute runs to its first await; the execute of the email tool is
\* the one given here, that of any other tool returns a pending promise
ExecuteInvoked(c, arg) ==
    LET d == [c EXCEPT !.execs = Append(c.execs, [tool |-> c.tool, args |-> arg])]
    IN  IF c.tool = "EmailSenderTool"
        THEN LET s == EmailSenderStart(arg)
             IN  [d EXCEPT !.promise = s.promise, !.sendMail = s.sendMail,
                           !.log = c.log \o s.log]
        ELSE [d EXCEPT !.promise = Pending]

\* StartToolCall that reports an unresolved name in an error envelope
StartToolCall_envelope(m, name, args, id) ==
    LET tool == ResolveTool(m, name)
        entry == [level |-> "info", message |-> "Handling tool call: " \o name,
                  context |-> args]
    IN  IF tool = Undefined
        THEN [IdleCall EXCEPT
                !.pc = "returned", !.name = name, !.args = args, !.id = id,
                !.response = ErrorResponse("Unknown tool: " \o name, id),
                !.log = <<entry>>]
        ELSE ExecuteInvoked([IdleCall EXCEPT
                !.pc = "awaiting", !.name = name, !.args = args, !.id = id,
                !.tool = tool, !.log = <<entry>>], args)

\* StartToolCall that hands execute the whole functionCall, not its args
StartToolCall_passesCall(m, name, args, id) ==
    LET tool == ResolveTool(m, name)
        entry == [level |-> "info", message |-> "Handling tool call: " \o name,
                  context |-> args]
    IN  IF tool = Undefined
        THEN [IdleCall EXCEPT
                !.pc = "rejected", !.name = name, !.args = args, !.id = id,
                !.error = ApplicationError("Unknown tool: " \o name,
                                           INVALID_PARAMETER),
                !.log = <<entry>>]
        ELSE ExecuteInvoked([IdleCall EXCEPT
                !.pc = "awaiting", !.name = name, !.args = args, !.id = id,
                !.tool = tool, !.log = <<entry>>], "functionCall")

\* handleToolCall(functionCall) from its entry to its await, as a function
\* of the map: the name is resolved; with no tool the call rejects with the
\* unknown-tool error, otherwise execute is invoked with the args
StartToolCall(m, name, args, id) ==
    LET tool == ResolveTool(m, name)
        entry == [level |-> "info", message |-> "Handling tool call: " \o name,
                  context |-> args]
    IN  IF tool = Undefined
        THEN [IdleCall EXCEPT
                !.pc = "rejected", !.name = name, !.args = args, !.id = id,
                !.error = ApplicationError("Unknown tool: " \o name,
                                           INVALID_PARAMETER),
                !.log = <<entry>>]
        ELSE ExecuteInvoked([IdleCall EXCEPT
                !.pc = "awaiting", !.name = name, !.args = args, !.id = id,
                !.tool = tool, !.log = <<entry>>], args)

\* ResumeToolCall that invokes execute once more after a first failure
ResumeToolCall_retry(c, outcome) ==
    IF outcome.kind = "return"
    THEN [c EXCEPT !.pc = "returned", !.outcome = outcome,
                   !.response = SuccessResponse(outcome.value, c.id)]
    ELSE IF Len(c.execs) < 2
    THEN ExecuteInvoked(c, c.args)
    ELSE [c EXCEPT !.pc = "returned", !.outcome = outcome,
                   !.response = ErrorResponse(outcome.value, c.id)]

\* ResumeToolCall with a catch block that rethrows instead of returning
ResumeToolCall_rethrow(c, outcome) ==
    IF outcome.kind = "return"
    THEN [c EXCEPT !.pc = "returned", !.outcome = outcome,
                   !.response = SuccessResponse(outcome.value, c.id)]
    ELSE [c EXCEPT !.pc = "rejected", !.outcome = outcome,
                   !.error = [message |-> outcome.value, code |-> ""]]

\* ResumeToolCall with a catch block that returns without logging
ResumeToolCall_silent(c, outcome) ==
    IF outcome.kind = "return"
    THEN [c EXCEPT !.pc = "returned", !.outcome = outcome,
                   !.response = SuccessResponse(outcome.value, c.id)]
    ELSE [c EXCEPT !.pc = "returned", !.outcome = outcome,
                   !.response = ErrorResponse(outcome.value, c.id)]

\* the rest of handleToolCall once the awaited promise has settled with
\* outcome; the error caught is logged with the error itself as context
ResumeToolCall(c, outcome) ==
    IF outcome.kind = "return"
    THEN [c EXCEPT !.pc = "returned", !.outcome = outcome,
                   !.response = SuccessResponse(outcome.value, c.id)]
    ELSE [c EXCEPT !.pc = "returned", !.outcome = outcome,
                   !.response = ErrorResponse(outcome.value, c.id),
                   !.log = Append(c.log,
                       [level |-> "error",
                        message |-> "Tool execution failed: " \o c.name,
                        context |-> outcome.value])]

\* the most recent synchronous operation and what it gave
NoOp ==
    [op |-> "none", name |-> "", tool |-> "", threw |-> FALSE,
     error |-> NoError, logged |-> FALSE, value |-> << >>, again |-> FALSE]

(* ------------------------------------------------------------------ *)
(* State machine                                                       *)
(* ------------------------------------------------------------------ *)

Init ==
    /\ tools = Constructor.tools
    /\ calls = [i \in Ids |-> IdleCall]
    /\ last = NoOp
    /\ executed = 0

\* registerTool(name, toolInstance)
RegisterTool(name, toolInstance) ==
    LET r == RegisterToolResult(tools, name, toolInstance) IN
    /\ Len(r.tools) <= Len(DefaultTools) + MaxExtraTools
    /\ tools' = r.tools
    /\ last' = [op |-> "registerTool", name |-> name, tool |-> toolInstance,
                threw |-> r.threw, error |-> r.error, logged |-> r.logged,
                value |-> << >>, again |-> FALSE]
    /\ UNCHANGED <<calls, executed>>

\* GetToolDeclarations that runs every tool to obtain its declaration
GetToolDeclarations_executing ==
    /\ last' = [op |-> "getToolDeclarations", name |-> "", tool |-> "",
                threw |-> FALSE, error |-> NoError, logged |-> FALSE,
                value |-> GetToolDeclarationsResult(tools),
                again |-> (last.op = "getToolDeclarations")]
    /\ executed' = executed + 1
    /\ UNCHANGED <<tools, calls>>

\* GetToolDeclarations that collects the records in an array kept between calls
GetToolDeclarations_accumulating ==
    /\ last' = [op |-> "getToolDeclarations", name |-> "", tool |-> "",
                threw |-> FALSE, error |-> NoError, logged |-> FALSE,
                value |-> IF last.op = "getToolDeclarations" /\ ~last.again
                          THEN last.value \o GetToolDeclarationsResult(tools)
                          ELSE GetToolDeclarationsResult(tools),
                again |-> (last.op = "getToolDeclarations")]
    /\ UNCHANGED <<tools, calls, executed>>

\* getToolDeclarations(); again tells that the call before it, with no
\* registerTool between the two, was a getToolDeclarations as well
GetToolDeclarations ==
    /\ last' = [op |-> "getToolDeclarations", name |-> "", tool |-> "",
                threw |-> FALSE, error |-> NoError, logged |-> FALSE,
                value |-> GetToolDeclarationsResult(tools),
                again |-> (last.op = "getToolDeclarations")]
    /\ UNCHANGED <<tools, calls, executed>>

\* HandleToolCall that binds the call name to the tool it resolved to
HandleToolCall_memo(name, args, id) ==
    /\ calls[id].pc = "idle"
    /\ calls' = [calls EXCEPT ![id] = StartToolCall(tools, name, args, id)]
    /\ tools' = IF ResolveTool(tools, name) = Undefined THEN tools
                ELSE Set(tools, name, ResolveTool(tools, name))
    /\ executed' = executed + Len(calls'[id].execs)
    /\ UNCHANGED last

\* handleToolCall(functionCall) up to its await; executed counts the
\* invocations of execute
HandleToolCall(name, args, id) ==
    /\ calls[id].pc = "idle"
    /\ calls' = [calls EXCEPT ![id] = StartToolCall(tools, name, args, id)]
    /\ executed' = executed + Len(calls'[id].execs)
    /\ UNCHANGED <<tools, last>>

\* ExecuteSettles with one pending result shared by the calls of a tool: the
\* promises of all the calls waiting for that tool settle with the outcome
ExecuteSettles_shared(id, outcome) ==
    /\ calls[id].pc = "awaiting"
    /\ calls[id].tool # "EmailSenderTool"
    /\ calls[id].promise = Pending
    /\ calls' = [j \in Ids |->
                   IF /\ calls[j].pc = "awaiting"
                      /\ calls[j].tool = calls[id].tool
                      /\ calls[j].promise = Pending
                   THEN [calls[j] EXCEPT !.promise = outcome]
                   ELSE calls[j]]
    /\ UNCHANGED <<tools, last, executed>>

\* the promise tool.execute(args) returned settles; the tool is one whose
\* execute is not given here and may settle either way.  handleToolCall is
\* still suspended at its await
ExecuteSettles(id, outcome) ==
    /\ calls[id].pc = "awaiting"
    /\ calls[id].tool # "EmailSenderTool"
    /\ calls[id].promise = Pending
    /\ calls' = [calls EXCEPT ![id].promise = outcome]
    /\ UNCHANGED <<tools, last, executed>>

\* sendMail settles with mail and the execute of the email tool resumes
\* after its await, logs, and settles its own promise.  handleToolCall is
\* still suspended at its await
SendMailSettles(id, mail) ==
    LET r == EmailSenderResume(calls[id].args, mail) IN
    /\ calls[id].pc = "awaiting"
    /\ calls[id].tool = "EmailSenderTool"
    /\ calls[id].sendMail = "pending"
    /\ calls' = [calls EXCEPT ![id].promise = r.promise,
                              ![id].sendMail = r.sendMail,
                              ![id].log = calls[id].log \o r.log]
    /\ UNCHANGED <<tools, last, executed>>

\* handleToolCall resumes after its await, the promise of execute having
\* settled, and returns its response
HandleToolCallResumes(id) ==
    /\ calls[id].pc = "awaiting"
    /\ calls[id].promise.kind \in {"return", "throw"}
    /\ calls' = [calls EXCEPT ![id] = ResumeToolCall(calls[id], calls[id].promise)]
    /\ executed' = executed + (Len(calls'[id].execs) - Len(calls[id].execs))
    /\ UNCHANGED <<tools, last>>

Next ==
    \/ \E name \in RegNames, t \in RegTools : RegisterTool(name, t)
    \/ GetToolDeclarations
    \/ \E name \in CallNames, args \in Args, id \in Ids : HandleToolCall(name, args, id)
    \/ \E id \in Ids, outcome \in Outcomes : ExecuteSettles(id, outcome)
    \/ \E id \in Ids, mail \in MailResults : SendMailSettles(id, mail)
    \/ \E id \in Ids : HandleToolCallResumes(id)

Spec == Init /\ [][Next]_vars

\* a pending promise that can settle does settle, and a call whose awaited
\* promise has settled does resume
Fairness ==
    \A id \in Ids :
        WF_vars(\/ \E outcome \in Outcomes : ExecuteSettles(id, outcome)
                \/ \E mail \in MailResults : SendMailSettles(id, mail)
                \/ HandleToolCallResumes(id))

LiveSpec == Spec /\ Fairness

(* ------------------------------------------------------------------ *)
(* Properties                                                          *)
(* ------------------------------------------------------------------ *)

\* the calls of handleToolCall that have been made
Made == {i \in Ids : calls[i].pc # "idle"}

\* the promise handleToolCall returned has settled
Settled(c) == c.pc \in {"returned", "rejected"}

\* the call resolved to exactly one response envelope carrying the id
OneEnvelope(c, id) ==
    /\ c.pc = "returned"
    /\ Len(c.response.functionResponses) = 1
    /\ c.response.functionResponses[1].id = id

\* C1 as stated: every request (known or unknown tool name, execute
\* succeeding or failing) resolves to exactly one response envelope with the
\* request's id, and handleToolCall never rejects.
C1_EveryRequestGetsEnvelope ==
    \A i \in Ids : Settled(calls[i]) => OneEnvelope(calls[i], i)

\* C1 amended, safety part: a call rejects exactly when its name resolved to
\* no tool, and then with the unknown-tool error and no envelope; a call
\* whose name resolved to a tool never rejects and, once settled, has exactly
\* one envelope with the request's id.
C1_Safe ==
    \A i \in Made :
        LET c == calls[i] IN
        /\ c.pc = "rejected" <=> c.tool = Undefined
        /\ ResolveTool(tools, c.name) = Undefined => c.pc = "rejected"
        /\ c.pc = "rejected" =>
              /\ c.response = NoResponse
              /\ c.error.message = "Unknown tool: " \o c.name
        /\ c.pc = "returned" => OneEnvelope(c, i)
        /\ c.pc = "awaiting" => c.response = NoResponse

\* C1 amended: the safety part always holds, and a call waiting for an
\* execute that settles does resolve to its envelope.
C1_TotalWhenToolResolves ==
    /\ []C1_Safe
    /\ \A i \in Ids : (calls[i].pc = "awaiting") ~> OneEnvelope(calls[i], i)

\* C1 witness: one call returned after its execute failed, the other after
\* its execute succeeded, each with an envelope.
C1_Witness ==
    /\ calls["x1"].pc = "returned" /\ calls["x1"].outcome.kind = "throw"
    /\ calls["x2"].pc = "returned" /\ calls["x2"].outcome.kind = "return"
    /\ calls["x2"].name = "get_weather_on_date"

\* the single element of the functionResponses of a call's response
Envelope(c) == c.response.functionResponses[1]

\* C2 as stated: a call whose name has no binding and is not the alias
\* returns the envelope {response: {error: "Unknown tool: <name>"}, id}.
C2_UnknownToolReturnsErrorEnvelope ==
    \A i \in Made :
        LET c == calls[i] IN
        (c.name # "get_weather_on_date" /\ ~Has(tools, c.name)) =>
            /\ OneEnvelope(c, i)
            /\ Envelope(c).response = [error |-> "Unknown tool: " \o c.name]

\* C2 amended: a call whose name has no binding and is not the alias rejects
\* with the error "Unknown tool: <name>" of code INVALID_PARAMETER; it
\* returns no envelope and invokes no execute.
C2_UnknownToolRejects ==
    \A i \in Made :
        LET c == calls[i] IN
        (c.name # "get_weather_on_date" /\ ~Has(tools, c.name)) =>
            /\ c.pc = "rejected"
            /\ c.error = [message |-> "Unknown tool: " \o c.name,
                          code |-> INVALID_PARAMETER]
            /\ c.response = NoResponse
            /\ c.execs = << >>

\* C2 witness: the call named doesNotExist with id x2 has been made and has
\* settled.
C2_Witness ==
    /\ calls["x2"].name = "doesNotExist"
    /\ Settled(calls["x2"])
    /\ ~Has(tools, "doesNotExist")

\* C3: a registerTool(name, t2) issued while name is bound raises the
\* duplicate-registration error and leaves the map as it was: the same
\* entries, bound to the same instances, in the same order.
C3_DuplicateRegistrationRejected ==
    [][\A name \in RegNames, t \in RegTools :
          (Has(tools, name) /\ RegisterTool(name, t)) =>
              /\ last'.threw
              /\ last'.error = [message |-> "Tool " \o name \o " is already registered",
                                code |-> INVALID_STATE]
              /\ Get(tools', name) = Get(tools, name)
              /\ tools' = tools]_vars

\* C3 witness: the last registerTool was given a name already bound to
\* another instance and threw; a tool registered after construction is
\* among the bindings.
C3_Witness ==
    /\ last.op = "registerTool" /\ last.threw
    /\ last.name = "calc"
    /\ Get(tools, "calc") = "toolA" /\ last.tool = "bareTool"

\* C4: when execute fails, handleToolCall returns (it does not reject) the
\* envelope {response: {error: <the failure's message>}, id} with the
\* request's id, and the response has no output field.
C4_ExecuteFailureReturnsErrorEnvelope ==
    \A i \in Made :
        LET c == calls[i] IN
        c.outcome.kind = "throw" =>
            /\ OneEnvelope(c, i)
            /\ DOMAIN Envelope(c) = {"response", "id"}
            /\ DOMAIN Envelope(c).response = {"error"}
            /\ Envelope(c).response.error = c.outcome.value

\* C4 witness: the execute of the weather tool failed with "boom".
C4_Witness ==
    \E i \in Ids :
        /\ calls[i].name = "weather" /\ calls[i].tool = "WeatherTool"
        /\ calls[i].outcome = [kind |-> "throw", value |-> "boom"]
        /\ Settled(calls[i])

\* C5: when execute completes with value v, handleToolCall returns the
\* envelope {response: {output: v}, id} with the request's id, and execute
\* was invoked once, with exactly the request's args.
C5_ExecuteValueReturnsOutputEnvelope ==
    \A i \in Made :
        LET c == calls[i] IN
        /\ c.outcome.kind = "return" =>
              /\ OneEnvelope(c, i)
              /\ DOMAIN Envelope(c) = {"response", "id"}
              /\ DOMAIN Envelope(c).response = {"output"}
              /\ Envelope(c).response.output = c.outcome.value
        /\ c.pc \in {"awaiting", "returned"} =>
              c.execs = << [tool |-> Get(tools, IF c.name = "get_weather_on_date"
                                                THEN "weather" ELSE c.name),
                            args |-> c.args] >>

\* C5 witness: calc is registered and the call {name: calc, args: a2,
\* id: x1} returned after execute gave "4".
C5_Witness ==
    /\ calls["x1"].name = "calc" /\ calls["x1"].args = "a2"
    /\ calls["x1"].pc = "returned"
    /\ calls["x1"].outcome = [kind |-> "return", value |-> "4"]

\* C6: a call named get_weather_on_date invokes the execute of the tool
\* registered under weather with the request's args, and gives the response
\* a call named weather gives for the same args, id and execute outcome.
C6_AliasDispatchesToWeather ==
    \A i \in Made :
        LET c == calls[i]
            w == StartToolCall(tools, "weather", c.args, i)
        IN  c.name = "get_weather_on_date" =>
            /\ c.pc \in {"awaiting", "returned"}
            /\ c.execs = << [tool |-> Get(tools, "weather"), args |-> c.args] >>
            /\ c.execs = w.execs
            /\ c.pc = "returned" =>
                  c.response = ResumeToolCall(w, c.outcome).response

\* C6 witness: a call named get_weather_on_date returned while another tool
\* is registered under the literal name get_weather_on_date.
C6_Witness ==
    /\ calls["x1"].name = "get_weather_on_date"
    /\ calls["x1"].pc = "returned"
    /\ Get(tools, "get_weather_on_date") = "toolA"

\* the entries of the map whose tool exposes getDeclaration
Declared == {k \in 1..Len(tools) : HasGetDeclaration(tools[k].tool)}

\* the place among the records of the record of entry k
Pos(k) == Cardinality({j \in Declared : j <= k})

\* a record made for entry k: a one-key object holding the declaration of
\* the tool of that entry
RecordOf(r, k) ==
    /\ DOMAIN r \in {{tools[k].name}, {"functionDeclarations"}}
    /\ \A key \in DOMAIN r : r[key] = GetDeclaration(tools[k].tool)

\* C7 as stated: getToolDeclarations returns exactly one record per
\* registered tool, in registration order, none omitted, none duplicated.
C7_OneRecordPerRegisteredTool ==
    last.op = "getToolDeclarations" =>
        /\ Len(last.value) = Len(tools)
        /\ \A k \in 1..Len(tools) : RecordOf(last.value[k], k)

\* C7 amended: getToolDeclarations returns exactly one record per registered
\* tool that exposes getDeclaration, in registration order; none of these is
\* omitted and none duplicated.
C7_OneRecordPerDeclaredTool ==
    last.op = "getToolDeclarations" =>
        /\ Len(last.value) = Cardinality(Declared)
        /\ \A k \in Declared : RecordOf(last.value[Pos(k)], k)

\* C7 witness: getToolDeclarations was called after toolA was registered
\* behind the fourteen default tools.
C7_Witness ==
    /\ last.op = "getToolDeclarations"
    /\ Len(tools) = Len(DefaultTools) + 1
    /\ tools[Len(tools)] = [name |-> "calc", tool |-> "toolA"]
    /\ Len(last.value) = Len(tools)

\* C8: the record of the tool registered under weather is the one-key
\* object {functionDeclarations: declaration}; the record of any other
\* registered name n is the one-key object {n: declaration}, keyed by the
\* registry name and not by the name inside the declaration.
C8_RecordShapePerName ==
    last.op = "getToolDeclarations" =>
        \A k \in Declared :
            LET r == last.value[Pos(k)]
                key == IF tools[k].name = "weather" THEN "functionDeclarations"
                       ELSE tools[k].name
            IN  /\ Pos(k) \in 1..Len(last.value)
                /\ DOMAIN r = {key}
                /\ r[key] = GetDeclaration(tools[k].tool)

\* C8 witness: getToolDeclarations was called with toolA, whose declaration
\* names itself toolA, registered under calc.
C8_Witness ==
    /\ last.op = "getToolDeclarations"
    /\ Get(tools, "calc") = "toolA"
    /\ GetDeclaration("toolA").name # "calc"
    /\ Get(tools, "weather") = "WeatherTool"

\* C9: every response handleToolCall produces is a functionResponses
\* sequence of exactly one element, whose response has exactly one of the
\* keys output (execute succeeded) and error (execute failed), with the
\* request's id.
C9_ExactlyOneOfOutputAndError ==
    \A i \in Made :
        LET c == calls[i] IN
        c.response # NoResponse =>
            /\ Len(c.response.functionResponses) = 1
            /\ DOMAIN Envelope(c) = {"response", "id"}
            /\ Envelope(c).id = i
            /\ DOMAIN Envelope(c).response \in {{"output"}, {"error"}}
            /\ ("output" \in DOMAIN Envelope(c).response) <=> (c.outcome.kind = "return")
            /\ ("error" \in DOMAIN Envelope(c).response) <=> (c.outcome.kind = "throw")

\* C9 witness: the call x1 returned an output and the call x2, to calc,
\* returned an error.
C9_Witness ==
    /\ calls["x1"].pc = "returned" /\ calls["x1"].outcome.kind = "return"
    /\ calls["x2"].pc = "returned" /\ calls["x2"].outcome.kind = "throw"
    /\ calls["x2"].name = "calc"

\* C10: no step of handleToolCall, whatever its outcome (success, execution
\* failure, unknown tool), changes the map of tools: keys, instances and
\* order stay as they were.
C10_HandleToolCallLeavesRegistry ==
    [][calls' # calls => tools' = tools]_vars

\* C10 witness: with a tool registered after construction, one call was
\* rejected for an unknown name and another returned after its execute
\* failed.
C10_Witness ==
    /\ Len(tools) = Len(DefaultTools) + 1
    /\ calls["x1"].pc = "rejected"
    /\ calls["x2"].pc = "returned" /\ calls["x2"].outcome.kind = "throw"
    /\ calls["x2"].name = "get_weather_on_date"

\* C11: getToolDeclarations is read-only: a call of it invokes no execute
\* of any tool and leaves the map of tools as it was.
C11_GetToolDeclarationsReadOnly ==
    [][(last'.op = "getToolDeclarations" /\ last' # last) =>
          /\ executed' = executed
          /\ \A i \in Ids : calls'[i].execs = calls[i].execs
          /\ tools' = tools]_vars

\* C11 witness: getToolDeclarations was called while a call was waiting for
\* its execute, which is the only execute invoked so far.
C11_Witness ==
    /\ last.op = "getToolDeclarations"
    /\ calls["x1"].pc = "awaiting" /\ calls["x2"].pc = "idle"
    /\ executed = 1
    /\ Len(tools) = Len(DefaultTools) + 1

\* C12: two getToolDeclarations calls with no registerTool between them
\* (handleToolCall steps may come between) return the same output: same
\* length, same order, same keys and declarations.
C12_DeclarationsRepeatable ==
    [][(last.op = "getToolDeclarations" /\ last'.op = "getToolDeclarations") =>
          last'.value = last.value]_vars

\* C12 witness: getToolDeclarations was called a second time with no
\* registerTool since the first, after a call that has returned.
C12_Witness ==
    /\ last.op = "getToolDeclarations" /\ last.again
    /\ calls["x1"].pc = "returned"
    /\ Len(last.value) = Len(DefaultTools) + 1

\* C14: there is no retry: a call whose name resolves to a tool invokes that
\* tool's execute exactly once, a call whose name resolves to no tool
\* invokes none, and a failed execution is reported in one response without
\* execute being invoked again.
C14_ExecuteInvokedOncePerCall ==
    /\ \A i \in Made :
          LET c == calls[i] IN
          /\ c.pc \in {"awaiting", "returned"} =>
                (Len(c.execs) = 1 /\ c.execs[1].tool = c.tool)
          /\ c.pc = "rejected" => c.execs = << >>
          /\ c.outcome.kind = "throw" =>
                (c.pc = "returned" /\ Len(c.response.functionResponses) = 1)
    /\ executed = Cardinality({i \in Made : calls[i].tool # Undefined})

\* C14 witness: both calls failed in their execute and were answered; execute
\* ran twice in all.
C14_Witness ==
    /\ \A i \in Ids : calls[i].pc = "returned" /\ calls[i].outcome.kind = "throw"
    /\ executed = 2

\* C15: overlapping calls are independent: a step of one call changes no
\* other call, and a call that returns, in whatever order the calls
\* complete, carries the id of its own request and the outcome its own
\* execute settled with.
C15_OverlappingCallsIndependent ==
    [][\A i \in Ids :
          calls'[i] # calls[i] =>
              /\ \A j \in Ids \ {i} : calls'[j] = calls[j]
              /\ calls'[i].pc = "returned" =>
                    /\ Len(calls'[i].response.functionResponses) = 1
                    /\ calls'[i].response.functionResponses[1].id = i
                    /\ calls'[i].outcome = calls[i].promise
                    /\ calls'[i].response.functionResponses[1].response =
                          IF calls[i].promise.kind = "return"
                          THEN [output |-> calls[i].promise.value]
                          ELSE [error |-> calls[i].promise.value]]_vars

\* C15 witness: two calls with different ids and args are both suspended at
\* the execute of the same tool, whose promises have settled differently,
\* the one of the later call first or not.
C15_Witness ==
    /\ calls["x1"].pc = "awaiting" /\ calls["x2"].pc = "awaiting"
    /\ calls["x1"].promise.kind = "throw" /\ calls["x2"].promise.kind = "return"
    /\ calls["x1"].tool = calls["x2"].tool
    /\ calls["x1"].args # calls["x2"].args
    /\ calls["x1"].name # calls["x2"].name

\* the traces of a call that handleToolCall itself emits; the others in the
\* call's log are those of the tool's execute
DispatcherLog(c) ==
    SelectSeq(c.log, LAMBDA e : e.message \in {"Handling tool call: " \o c.name,
                                               "Tool execution failed: " \o c.name})

\* C16 as stated: for every call whose tool resolves, the dispatcher emits a
\* trace before execute is invoked and another after execute completes; when
\* execute fails, it emits a distinct error-level trace with the cause in
\* addition.
C16_TraceBeforeAndAfterExecute ==
    \A i \in Made :
        LET c == calls[i]
            d == DispatcherLog(c)
        IN  /\ c.pc = "awaiting" => Len(d) >= 1
            /\ c.pc = "returned" => Len(d) >= 2
            /\ (c.pc = "returned" /\ c.outcome.kind = "throw") =>
                  /\ Len(d) >= 3
                  /\ \E k \in 1..Len(d) : d[k].level = "error"

\* C16 amended: on every call the dispatcher emits one info-level trace, with
\* the args, on entry and so before execute is invoked and before any trace
\* of execute; when execute succeeds the dispatcher emits no further trace;
\* when execute fails it emits exactly one more trace, of error level and
\* carrying the cause, after the traces of execute and before the failure
\* response.
C16_TraceOnEntryAndOnFailure ==
    \A i \in Made :
        LET c == calls[i]
            d == DispatcherLog(c)
        IN  /\ Len(d) >= 1
            /\ c.log[1] = [level |-> "info",
                           message |-> "Handling tool call: " \o c.name,
                           context |-> c.args]
            /\ d[1] = c.log[1]
            /\ (c.pc \in {"awaiting", "rejected"} \/ c.outcome.kind = "return") =>
                  Len(d) = 1
            /\ c.outcome.kind = "throw" =>
                  /\ Len(d) = 2
                  /\ d[2] = c.log[Len(c.log)]
                  /\ d[2].level = "error"
                  /\ d[2].context = c.outcome.value
                  /\ c.response # NoResponse

\* C16 witness: one call returned after a successful execute, the other,
\* to the email tool, after a failed one that left traces of its own.
C16_Witness ==
    /\ calls["x1"].pc = "returned" /\ calls["x1"].outcome.kind = "return"
    /\ calls["x1"].name = "weather"
    /\ calls["x2"].pc = "returned" /\ calls["x2"].outcome.kind = "throw"
    /\ calls["x2"].name = "emailSender" /\ Len(calls["x2"].log) = 4

\* the names the constructor registers, in the order it registers them
DefaultNames ==
    << "googleSearch", "weather", "documentSaver", "emailSender", "calculator",
       "unitConverter", "timeConverter", "currencyConverter", "dateCalculator",
       "textSummarizer", "textTranslator", "randomGenerator",
       "passwordGenerator", "listGenerator" >>

\* C17: the constructor ends without a duplicate-registration error and
\* leaves exactly the 14 default tools, under pairwise distinct names, in
\* the order googleSearch, weather, ..., listGenerator; afterwards no
\* operation removes or replaces one of these bindings.
C17_DefaultToolsStay ==
    /\ ~Constructor.threw
    /\ Len(Constructor.tools) = 14
    /\ \A j, k \in 1..14 : j # k => DefaultNames[j] # DefaultNames[k]
    /\ Len(tools) >= 14
    /\ \A k \in 1..14 :
          /\ tools[k].name = DefaultNames[k]
          /\ tools[k] = Constructor.tools[k]
          /\ Get(tools, DefaultNames[k]) = Constructor.tools[k].tool
    /\ \A j, k \in 1..Len(tools) : j # k => tools[j].name # tools[k].name

\* C17 witness: a tool was registered behind the defaults and a later
\* registerTool under the default name weather was refused.
C17_Witness ==
    /\ Len(tools) = 15
    /\ last.op = "registerTool" /\ last.threw /\ last.name = "weather"
    /\ last.tool = "bareTool"
    /\ Get(tools, "calc") = "bareTool"

\* the entries of the map bound to the tool instance t
BoundTo(t) == {k \in 1..Len(tools) : tools[k].tool = t}

\* C18: the alias has precedence without fallback: a call named
\* get_weather_on_date is resolved through the weather binding alone, so a
\* tool registered under the literal name get_weather_on_date is executed
\* by no call, while getToolDeclarations does list it.
C18_AliasShadowsLiteralName ==
    /\ \A i \in Made :
          calls[i].name = "get_weather_on_date" =>
              /\ calls[i].tool = Get(tools, "weather")
              /\ \A k \in 1..Len(calls[i].execs) :
                    calls[i].execs[k].tool = Get(tools, "weather")
    /\ (Has(tools, "get_weather_on_date")
          /\ Cardinality(BoundTo(Get(tools, "get_weather_on_date"))) = 1) =>
          \A i \in Made : \A k \in 1..Len(calls[i].execs) :
              calls[i].execs[k].tool # Get(tools, "get_weather_on_date")
    /\ (last.op = "getToolDeclarations"
          /\ Has(tools, "get_weather_on_date")
          /\ HasGetDeclaration(Get(tools, "get_weather_on_date"))) =>
          \E k \in 1..Len(last.value) :
              DOMAIN last.value[k] = {"get_weather_on_date"}

\* C18 witness: toolA is registered under get_weather_on_date and listed by
\* getToolDeclarations, and a call named get_weather_on_date has returned.
C18_Witness ==
    /\ Get(tools, "get_weather_on_date") = "toolA"
    /\ last.op = "getToolDeclarations"
    /\ calls["x2"].name = "get_weather_on_date"
    /\ calls["x2"].pc = "returned"
    /\ calls["x1"].pc = "idle"

\* the entries of the map whose tool has no getDeclaration
Undeclared == {k \in 1..Len(tools) : ~HasGetDeclaration(tools[k].tool)}

\* C19: a tool without getDeclaration is accepted by registerTool (it is
\* refused only as a duplicate) and is dispatched to by handleToolCall, but
\* has no record in the output of getToolDeclarations, which holds one
\* record for each registered tool exposing getDeclaration, in order.
C19_ToolWithoutDeclaration ==
    /\ (last.op = "registerTool" /\ ~HasGetDeclaration(last.tool)) =>
          IF last.threw
          THEN /\ last.error.message = "Tool " \o last.name \o " is already registered"
               /\ last.name \in {DefaultNames[k] : k \in 1..14}
                                \cup {tools[k].name : k \in 15..Len(tools)}
          ELSE Get(tools, last.name) = last.tool
    /\ \A i \in Made :
          (Has(tools, calls[i].name) /\ calls[i].name # "get_weather_on_date"
             /\ ~HasGetDeclaration(Get(tools, calls[i].name))
             /\ calls[i].tool # Undefined) =>
              /\ calls[i].pc \in {"awaiting", "returned"}
              /\ calls[i].execs = << [tool |-> Get(tools, calls[i].name),
                                      args |-> calls[i].args] >>
    /\ last.op = "getToolDeclarations" =>
          /\ Len(last.value) = Len(tools) - Cardinality(Undeclared)
          /\ \A k \in Undeclared : \A j \in 1..Len(last.value) :
                tools[k].name \notin DOMAIN last.value[j]
          /\ \A k \in Declared :
                \E key \in DOMAIN last.value[Pos(k)] :
                    last.value[Pos(k)][key] = GetDeclaration(tools[k].tool)

\* C19 witness: bareTool, which has no getDeclaration, is registered under
\* calc, a call named calc has returned its output, and getToolDeclarations
\* gave the records of the fourteen default tools alone.
C19_Witness ==
    /\ Get(tools, "calc") = "bareTool"
    /\ calls["x1"].name = "calc" /\ calls["x1"].tool = "bareTool"
    /\ calls["x1"].pc = "returned" /\ calls["x1"].outcome.kind = "return"
    /\ last.op = "getToolDeclarations"
    /\ Len(last.value) = 14

\* the messages of the errors that can arise inside the email tool's execute
EmailCauses ==
    {"Cannot read properties of undefined (reading 'join')"}
    \cup {m.message : m \in {r \in MailResults : ~r.ok}}

\* C20: the email tool's execute returns its success string only after
\* sendMail completed without error; a failure inside execute (malformed
\* args, a sendMail rejection) is thrown again as an Error whose message is
\* "Failed to send email: " followed by the cause's message, and the call to
\* emailSender then gives an error envelope with that message and the
\* request's id, and no output.
C20_EmailFailureWrapped ==
    \A i \in Made :
        LET c == calls[i] IN
        c.tool = "EmailSenderTool" =>
            /\ c.sendMail = "pending" => (c.promise = Pending /\ c.pc = "awaiting")
            /\ c.pc = "awaiting" => c.response = NoResponse
            /\ c.promise.kind = "return" =>
                  /\ c.sendMail = "resolved"
                  /\ c.args = "a1"
                  /\ c.promise.value =
                        "Email sent to a@x.io, b@x.io with subject: Hi and body: Text. Attachment: none"
            /\ c.promise.kind = "throw" =>
                  /\ c.sendMail \in {"notCalled", "rejected"}
                  /\ c.sendMail = "notCalled" <=> c.args = "a2"
                  /\ \E cause \in EmailCauses :
                        /\ c.promise.value = "Failed to send email: " \o cause
                        /\ c.log[Len(c.log) - (IF c.pc = "returned" THEN 1 ELSE 0)]
                              = EmailFailedEntry(cause)
            /\ c.pc = "returned" =>
                  /\ c.outcome = c.promise
                  /\ c.outcome.kind = "throw" =>
                        c.response.functionResponses =
                            << [response |-> [error |-> c.promise.value], id |-> i] >>

\* C20 witness: one call to emailSender failed on args without recipients,
\* the other on a rejected sendMail; both were answered.
C20_Witness ==
    /\ calls["x1"].name = "emailSender" /\ calls["x1"].args = "a2"
    /\ calls["x1"].pc = "returned" /\ calls["x1"].sendMail = "notCalled"
    /\ calls["x2"].name = "emailSender" /\ calls["x2"].args = "a1"
    /\ calls["x2"].pc = "returned" /\ calls["x2"].sendMail = "rejected"

====
